---- MODULE Spec2Model ----
(***************************************************************************)
(* The DHT resources of the HTTP API (find-peer, find-providers, get,      *)
(* provide, put, query) and the bootstrap reset of the core.               *)
(*                                                                         *)
(* One request is followed from its raw query to its outcome: validation   *)
(* against the resource's schema, the handler, and for the streaming verbs *)
(* the pump that writes one envelope per engine event.  The engine is a    *)
(* collaborator: what it resolves with, fails with or yields is drawn from *)
(* small sets.                                                             *)
(*                                                                         *)
(* Text is a sequence of tokens, so that concatenation and string forms    *)
(* are computed and not assumed.                                           *)
(***************************************************************************)
EXTENDS Integers, Sequences, FiniteSets, TLC

VARIABLES
    verb,       \* the resource the request is routed to
    rawQuery,   \* the query of the request as the client sent it
    query,      \* request.query: as sent before validation, normalised after
    pc,         \* "validate", "handler", "streaming", "done"
    aborted,    \* request.app.signal has fired
    calls,      \* the calls made on ipfs.dht, in order
    outcome,    \* what the handler returned or threw
    source,     \* the events the engine's sequence yields for this call
    srcEnd,     \* how that sequence ends: normally or with a failure
    read,       \* number of events taken from the source
    out,        \* the envelopes written to the response, in order
    stream,     \* "none", "open", "ended", "failed", "cancelled"
    released,   \* the source iterator was closed early
    store,      \* the repository's persisted Configuration Document
    rpc,        \* reset: "idle", "read", "done"
    config,     \* reset: the local `config` object
    docRead,    \* reset: the document as getAll returned it
    repoCalls,  \* reset: calls made on repo.config, in order
    result,     \* reset: what the call returned or threw
    raced       \* another writer changed the store since reset's getAll

dhtVars == <<verb, rawQuery, query, pc, aborted, calls, outcome, source, srcEnd, read,
             out, stream, released>>
resetVars == <<store, rpc, config, docRead, repoCalls, result, raced>>
vars == <<dhtVars, resetVars>>

----------------------------------------------------------------------------
(* Bounds *)

NumPeers == 2       \* distinct peer ids the engine can report
NumAddrs == 2       \* distinct multiaddrs the engine can report
MaxEvents == 2      \* longest engine sequence of a streaming call
MaxArity == 3       \* most occurrences of `arg` in a put request

----------------------------------------------------------------------------
(* Values and their string forms *)

Has(r, f) == f \in DOMAIN r

PeerIds == 1..NumPeers
Addrs == 1..NumAddrs

\* id.toString()
IdToString(p) == <<"Qm", p>>

\* a.toString() of a multiaddr
AddrToString(a) == <<"/ip4/", a>>

\* lists of distinct multiaddrs, up to two entries
AddrLists ==
    {<<>>} \cup {<<a>> : a \in Addrs}
           \cup {p \in Addrs \X Addrs : p[1] # p[2]}

\* what findPeer resolves with and what findProvs yields: { id, addrs },
\* where addrs may be missing
PeerInfos ==
    {[id |-> p] : p \in PeerIds}
        \cup {[id |-> p, addrs |-> l] : p \in PeerIds, l \in AddrLists}

\* what query yields: { id }
QueryEvents == {[id |-> p] : p \in PeerIds}

\* Error.prototype.toString(): the name, then ": " and the message if any
ErrToString(err) ==
    IF err.message = <<>> THEN <<"Error">>
    ELSE <<"Error", ": ">> \o err.message

\* failures of the engine: an Error with a message and possibly a code
EngineErrors ==
    {[message |-> m] : m \in {<<>>, <<"boom">>}}
        \cup {[message |-> m, code |-> c] :
                m \in {<<>>, <<"boom">>},
                c \in {"ERR_LOOKUP_FAILED", "ERR_NOT_FOUND"}}

----------------------------------------------------------------------------
(* Input validation: the `options.validate` schema of each resource *)

Extend(q, f, v) == [g \in DOMAIN q \cup {f} |-> IF g = f THEN v ELSE q[g]]

WithOptional(base, f, vals) == base \cup {Extend(q, f, v) : q \in base, v \in vals}

\* .rename(from, to, { override: true, ignoreUndefined: true })
Rename(q, from, to) ==
    IF Has(q, from)
    THEN [g \in (DOMAIN q \ {from}) \cup {to} |-> IF g = to THEN q[from] ELSE q[g]]
    ELSE q

\* stripUnknown: true
StripUnknown(q, keys) == [g \in DOMAIN q \cap keys |-> q[g]]

\* Joi.timeout(): a duration in text becomes milliseconds
ParseTimeout(t) == IF t = "1s" THEN 1000 ELSE 0

ConvertTimeout(q) ==
    IF Has(q, "timeout") THEN [q EXCEPT !["timeout"] = ParseTimeout(@)] ELSE q

\* Joi.cid(): text that parses as a content identifier becomes a CID
IsCid(s) == s \in {"bafyA"}
ToCid(s) == <<"CID", s>>

\* Joi.binary(): text becomes a buffer
ToBuffer(s) == <<"Buffer", s>>

\* Joi.number().integer(): text becomes a number
ToNumber(s) == CHOOSE n \in 0..9 : <<"0", "1", "2", "3", "4", "5", "6", "7", "8", "9">>[n + 1] = s

Valid(q) == [ok |-> TRUE, query |-> q]
Invalid(f) == [ok |-> FALSE, field |-> f]

\* the default of numProviders
DefaultNumProviders == 20

\* findPeerResource and queryResource: peerId required, aliased from arg
ValidatePeerId(raw) ==
    LET q == StripUnknown(Rename(raw, "arg", "peerId"), {"peerId", "timeout"})
    IN  IF ~Has(q, "peerId") THEN Invalid("peerId")
        ELSE Valid(ConvertTimeout(q))

\* findProvsResource: cid required, aliased from arg; numProviders aliased
\* from num-providers, default 20
ValidateFindProvs(raw) ==
    LET r == Rename(Rename(raw, "arg", "cid"), "num-providers", "numProviders")
        q == StripUnknown(r, {"cid", "numProviders", "timeout"})
    IN  IF ~Has(q, "cid") \/ ~IsCid(q.cid) THEN Invalid("cid")
        ELSE LET c == [q EXCEPT !["cid"] = ToCid(@)]
                 n == IF Has(c, "numProviders")
                      THEN [c EXCEPT !["numProviders"] = ToNumber(@)]
                      ELSE Extend(c, "numProviders", DefaultNumProviders)
             IN  Valid(ConvertTimeout(n))

\* getResource: buffer required, aliased from arg
ValidateGet(raw) ==
    LET q == StripUnknown(Rename(raw, "arg", "buffer"), {"buffer", "timeout"})
    IN  IF ~Has(q, "buffer") THEN Invalid("buffer")
        ELSE Valid(ConvertTimeout([q EXCEPT !["buffer"] = ToBuffer(@)]))

\* provideResource: cid required, aliased from arg
ValidateProvide(raw) ==
    LET q == StripUnknown(Rename(raw, "arg", "cid"), {"cid", "timeout"})
    IN  IF ~Has(q, "cid") \/ ~IsCid(q.cid) THEN Invalid("cid")
        ELSE Valid(ConvertTimeout([q EXCEPT !["cid"] = ToCid(@)]))

\* Joi.array().length(2): a mutant accepting at least two
ArityAtLeastTwo(arg) == Len(arg) >= 2

\* Joi.array().length(2)
PutArity(arg) == Len(arg) = 2

\* putResource: arg: Joi.array().length(2).items(Joi.binary()).required().
\* `arg` holds the occurrences of arg in the request; a single occurrence
\* reaches the schema as text, which is no array.
ValidatePut(raw) ==
    LET q == StripUnknown(raw, {"arg", "timeout"})
    IN  IF ~Has(q, "arg") THEN Invalid("arg")
        ELSE IF Len(q.arg) = 1 \/ ~PutArity(q.arg) THEN Invalid("arg")
        ELSE Valid(ConvertTimeout(
                 [q EXCEPT !["arg"] = [i \in 1..Len(@) |-> ToBuffer(@[i])]]))

Validate(v, raw) ==
    CASE v \in {"findPeer", "query"} -> ValidatePeerId(raw)
      [] v = "findProvs" -> ValidateFindProvs(raw)
      [] v = "get" -> ValidateGet(raw)
      [] v = "provide" -> ValidateProvide(raw)
      [] v = "put" -> ValidatePut(raw)

Verbs == {"findPeer", "findProvs", "get", "provide", "put", "query"}

\* every request carries a parameter the schemas do not know
BaseQuery == {[encoding |-> "json"]}

RECURSIVE SeqsUpTo(_, _)
SeqsUpTo(S, n) ==
    IF n = 0 THEN {<<>>}
    ELSE LET shorter == SeqsUpTo(S, n - 1)
         IN  shorter \cup {Append(s, x) : s \in {t \in shorter : Len(t) = n - 1}, x \in S}

\* the requests a client can send to each resource
RawQueries(v) ==
    LET t(qs) == WithOptional(qs, "timeout", {"1s"})
    IN  CASE v \in {"findPeer", "query"} ->
               t(WithOptional(WithOptional(BaseQuery, "peerId", {"QmNamed"}),
                              "arg", {"QmArg"}))
          [] v = "findProvs" ->
               t(WithOptional(WithOptional(BaseQuery, "arg", {"bafyA", "junk"}),
                              "num-providers", {"1"}))
          [] v = "get" -> t(WithOptional(BaseQuery, "arg", {"key"}))
          [] v = "provide" -> t(WithOptional(BaseQuery, "arg", {"bafyA", "junk"}))
          [] v = "put" ->
               t(WithOptional(BaseQuery, "arg",
                              SeqsUpTo({"key", "val"}, MaxArity) \ {<<>>}))

----------------------------------------------------------------------------
(* The handlers *)

\* Type of the find-peer envelope
PeerResponseType == 2

\* Type of a find-providers envelope
ProviderType == 4

\* Type of the get envelope
ValueType == 5

\* Boom.notFound(message)
NotFound(message) == [isBoom |-> TRUE, statusCode |-> 404, message |-> message]

\* Boom.boomify(err, { message }): the error itself, decorated: status 500,
\* the given message put in front of its own
Boomify(err, message) ==
    [isBoom |-> TRUE, statusCode |-> 500,
     message |-> message \o (IF err.message = <<>> THEN <<>>
                             ELSE <<": ">> \o err.message)]

ErrCode(err) == IF Has(err, "code") THEN err.code ELSE "undefined"

\* { signal, timeout } as every handler passes it to the engine
CallOpts(q) ==
    IF Has(q, "timeout") THEN [signal |-> "request.app.signal", timeout |-> q.timeout]
    ELSE [signal |-> "request.app.signal"]

\* (addrs || []).map(a => a.toString())
AddrsToStrings(info) ==
    IF Has(info, "addrs")
    THEN [i \in 1..Len(info.addrs) |-> AddrToString(info.addrs[i])]
    ELSE <<>>

\* a mutant of FindPeerCatch: every failure becomes a server error
CatchAllAsServerError(err) == Boomify(err, ErrToString(err))

\* the catch block of findPeerResource.handler
FindPeerCatch(err) ==
    IF ErrCode(err) = "ERR_LOOKUP_FAILED"
    THEN NotFound(ErrToString(err))
    ELSE Boomify(err, ErrToString(err))

\* a mutant of FindPeerBody: the addresses are left out
FindPeerBodyNoAddrs(res) ==
    [Responses |-> <<[ID |-> IdToString(res.id), Addrs |-> <<>>]>>,
     Type |-> PeerResponseType]

\* the payload findPeerResource.handler responds with
FindPeerBody(res) ==
    [Responses |-> <<[ID |-> IdToString(res.id), Addrs |-> AddrsToStrings(res)]>>,
     Type |-> PeerResponseType]

\* a mutant of FindProvsStage: each event is yielded twice
FindProvsStageTwice(ev) ==
    LET e == [Responses |-> <<[ID |-> IdToString(ev.id), Addrs |-> AddrsToStrings(ev)]>>,
              Type |-> ProviderType]
    IN  <<e, e>>

\* a mutant of FindProvsStage: the envelope carries the find-peer Type
FindProvsStagePeerType(ev) ==
    <<[Responses |-> <<[ID |-> IdToString(ev.id), Addrs |-> AddrsToStrings(ev)]>>,
       Type |-> PeerResponseType]>>

\* the transform of findProvsResource.handler: what it yields for one event
FindProvsStage(ev) ==
    <<[Responses |-> <<[ID |-> IdToString(ev.id), Addrs |-> AddrsToStrings(ev)]>>,
       Type |-> ProviderType]>>

\* a mutant of QueryStage: the peer id is passed on without its string form
QueryStageRawId(ev) == <<[ID |-> <<"PeerId", ev.id>>]>>

\* the transform of queryResource.handler: what it yields for one event
QueryStage(ev) == <<[ID |-> IdToString(ev.id)]>>

Stage(v, ev) == IF v = "findProvs" THEN FindProvsStage(ev) ELSE QueryStage(ev)

\* the values get can resolve with, and their string form
Values == {"v1", "v2"}
ValueToString(v) == <<"text", v>>

\* how an engine call settles
Resolved(S) == {[ok |-> TRUE, value |-> x] : x \in S}
Rejected == {[ok |-> FALSE, err |-> e] : e \in EngineErrors}

\* one call on ipfs.dht, with how it settled
Call(fn, args, q, r) == [fn |-> fn, args |-> args, opts |-> CallOpts(q), settled |-> r]

\* one call on ipfs.dht that returns a sequence
SeqCall(fn, args, opts) == [fn |-> fn, args |-> args, opts |-> opts]

\* a validation failure ends the request before the handler runs
ValidateRequest ==
    /\ pc = "validate"
    /\ LET v == Validate(verb, query)
       IN  IF v.ok
           THEN /\ query' = v.query
                /\ pc' = "handler"
                /\ outcome' = outcome
           ELSE /\ outcome' = [kind |-> "badRequest", field |-> v.field]
                /\ pc' = "done"
                /\ query' = query
    /\ UNCHANGED <<verb, rawQuery, aborted, calls, source, srcEnd, read, out, stream, released>>
    /\ UNCHANGED resetVars

\* request.app.signal fires: a timeout or the client going away
Abort ==
    /\ pc # "done"
    /\ ~aborted
    /\ aborted' = TRUE
    /\ UNCHANGED <<verb, rawQuery, query, pc, calls, outcome, source, srcEnd, read, out,
                   stream, released>>
    /\ UNCHANGED resetVars

\* findPeerResource.handler
FindPeerHandler ==
    /\ pc = "handler" /\ verb = "findPeer"
    /\ \E r \in Resolved(PeerInfos) \cup Rejected :
          /\ calls' = Append(calls, Call("findPeer", <<query.peerId>>, query, r))
          /\ outcome' = IF r.ok
                        THEN [kind |-> "response", body |-> FindPeerBody(r.value)]
                        ELSE [kind |-> "throw", err |-> FindPeerCatch(r.err)]
    /\ pc' = "done"
    /\ UNCHANGED <<verb, rawQuery, query, aborted, source, srcEnd, read, out, stream, released>>
    /\ UNCHANGED resetVars

\* a mutant of GetHandler: a failure of the engine is caught and translated
GetHandlerTranslates ==
    /\ pc = "handler" /\ verb = "get"
    /\ \E r \in Resolved(Values) \cup Rejected :
          /\ calls' = Append(calls, Call("get", <<query.buffer>>, query, r))
          /\ outcome' = IF r.ok
                        THEN [kind |-> "response",
                              body |-> [Extra |-> ValueToString(r.value),
                                        Type |-> ValueType]]
                        ELSE [kind |-> "throw", err |-> Boomify(r.err, ErrToString(r.err))]
    /\ pc' = "done"
    /\ UNCHANGED <<verb, rawQuery, query, aborted, source, srcEnd, read, out, stream, released>>
    /\ UNCHANGED resetVars

\* getResource.handler: no catch, a failure of the engine leaves as it is
GetHandler ==
    /\ pc = "handler" /\ verb = "get"
    /\ \E r \in Resolved(Values) \cup Rejected :
          /\ calls' = Append(calls, Call("get", <<query.buffer>>, query, r))
          /\ outcome' = IF r.ok
                        THEN [kind |-> "response",
                              body |-> [Extra |-> ValueToString(r.value),
                                        Type |-> ValueType]]
                        ELSE [kind |-> "throw", err |-> r.err]
    /\ pc' = "done"
    /\ UNCHANGED <<verb, rawQuery, query, aborted, source, srcEnd, read, out, stream, released>>
    /\ UNCHANGED resetVars

\* provideResource.handler: no catch; an empty response
ProvideHandler ==
    /\ pc = "handler" /\ verb = "provide"
    /\ \E r \in Resolved({"void"}) \cup Rejected :
          /\ calls' = Append(calls, Call("provide", <<query.cid>>, query, r))
          /\ outcome' = IF r.ok THEN [kind |-> "response"]
                        ELSE [kind |-> "throw", err |-> r.err]
    /\ pc' = "done"
    /\ UNCHANGED <<verb, rawQuery, query, aborted, source, srcEnd, read, out, stream, released>>
    /\ UNCHANGED resetVars

\* arg: [key, value] of putResource.handler
PutArgs(arg) == <<arg[1], arg[2]>>

\* putResource.handler: no catch; an empty response
PutHandler ==
    /\ pc = "handler" /\ verb = "put"
    /\ \E r \in Resolved({"void"}) \cup Rejected :
          /\ calls' = Append(calls, Call("put", PutArgs(query.arg), query, r))
          /\ outcome' = IF r.ok THEN [kind |-> "response"]
                        ELSE [kind |-> "throw", err |-> r.err]
    /\ pc' = "done"
    /\ UNCHANGED <<verb, rawQuery, query, aborted, source, srcEnd, read, out, stream, released>>
    /\ UNCHANGED resetVars

\* how an engine sequence can end
SrcEnds == {[kind |-> "end"]} \cup {[kind |-> "error", err |-> e] : e \in {[message |-> <<"boom">>]}}

\* findProvsResource.handler: the response is the stream; the engine is
\* asked for its sequence with { numProviders, signal, timeout }
FindProvsHandler ==
    /\ pc = "handler" /\ verb = "findProvs"
    /\ \E s \in SeqsUpTo(PeerInfos, MaxEvents), e \in SrcEnds :
          /\ source' = s
          /\ srcEnd' = e
    /\ calls' = Append(calls,
                  SeqCall("findProvs", <<query.cid>>,
                          Extend(CallOpts(query), "numProviders", query.numProviders)))
    /\ outcome' = [kind |-> "stream"]
    /\ stream' = "open"
    /\ pc' = "streaming"
    /\ UNCHANGED <<verb, rawQuery, query, aborted, read, out, released>>
    /\ UNCHANGED resetVars

\* queryResource.handler: the response is the stream
QueryHandler ==
    /\ pc = "handler" /\ verb = "query"
    /\ \E s \in SeqsUpTo(QueryEvents, MaxEvents), e \in SrcEnds :
          /\ source' = s
          /\ srcEnd' = e
    /\ calls' = Append(calls, SeqCall("query", <<query.peerId>>, CallOpts(query)))
    /\ outcome' = [kind |-> "stream"]
    /\ stream' = "open"
    /\ pc' = "streaming"
    /\ UNCHANGED <<verb, rawQuery, query, aborted, read, out, released>>
    /\ UNCHANGED resetVars

\* streamResponse, one turn of its pump: the signal has not fired, the next
\* event is taken from the source, passed through the handler's transform
\* and written
StreamPump ==
    /\ pc = "streaming"
    /\ ~aborted
    /\ read < Len(source)
    /\ read' = read + 1
    /\ out' = out \o Stage(verb, source[read + 1])
    /\ UNCHANGED <<verb, rawQuery, query, pc, aborted, calls, outcome, source, srcEnd,
                   stream, released>>
    /\ UNCHANGED resetVars

\* streamResponse, the source is exhausted: the stream ends, cleanly or
\* with the failure the source ended with
StreamEnd ==
    /\ pc = "streaming"
    /\ ~aborted
    /\ read = Len(source)
    /\ stream' = IF srcEnd.kind = "end" THEN "ended" ELSE "failed"
    /\ pc' = "done"
    /\ UNCHANGED <<verb, rawQuery, query, aborted, calls, outcome, source, srcEnd, read,
                   out, released>>
    /\ UNCHANGED resetVars

\* streamResponse, the signal has fired: nothing more is read or written
\* and the source iterator is closed
StreamCancel ==
    /\ pc = "streaming"
    /\ aborted
    /\ released' = TRUE
    /\ stream' = "cancelled"
    /\ pc' = "done"
    /\ UNCHANGED <<verb, rawQuery, query, aborted, calls, outcome, source, srcEnd, read, out>>
    /\ UNCHANGED resetVars

----------------------------------------------------------------------------
(* Bootstrap reset *)

\* a multiaddr in text: "/", protocol, "/", value
\* the built-in default bootstrap list: defaultConfig().Bootstrap
DefaultBootstrap == << <<"/", "dnsaddr", "/", "a">>, <<"/", "dns4", "/", "b">> >>

\* new Multiaddr(ma): the text parsed into its protocol and value
Multiaddr(ma) == [protocol |-> ma[2], value |-> ma[4]]

\* defaultConfig().Bootstrap.map(ma => new Multiaddr(ma))
DefaultPeers == [i \in 1..Len(DefaultBootstrap) |-> Multiaddr(DefaultBootstrap[i])]

\* largest value of a field of the stored document
MaxVal == 1

BootLists == {<<>>, << <<"/", "ip4", "/", "old">> >>, DefaultBootstrap}

\* the Configuration Documents the repository can hold: field A, and
\* possibly B and Bootstrap
Documents ==
    LET a == {[A |-> x] : x \in 0..MaxVal}
        b == WithOptional(a, "B", 0..MaxVal)
    IN  b \cup {Extend(d, "Bootstrap", l) : d \in b, l \in BootLists}

\* failures of the repository
RepoErrors == {[message |-> <<"locked">>], [message |-> <<"io">>, code |-> "ERR_IO"]}

RepoSettles == {[ok |-> TRUE]} \cup {[ok |-> FALSE, err |-> e] : e \in RepoErrors}

\* a mutant of SetBootstrap: a new document with the bootstrap list alone
SetBootstrapAlone(doc) == [Bootstrap |-> DefaultBootstrap]

\* config.Bootstrap = defaultConfig().Bootstrap
SetBootstrap(doc) == Extend(doc, "Bootstrap", DefaultBootstrap)

\* a mutant of Replace: only the bootstrap list is patched into the store
ReplacePatchesBootstrap(stored, doc) == Extend(stored, "Bootstrap", doc.Bootstrap)

\* repo.config.replace(config): the stored document becomes the given one
Replace(stored, doc) == doc

\* a mutant of ResetGetAll: a failed read is swallowed and reset goes on
\* with an empty document
ResetGetAllSwallows ==
    /\ rpc = "idle"
    /\ \E r \in RepoSettles :
          /\ repoCalls' = Append(repoCalls, [fn |-> "getAll", settled |-> r])
          /\ docRead' = store
          /\ config' = IF r.ok THEN SetBootstrap(store) ELSE SetBootstrapAlone(store)
    /\ rpc' = "read"
    /\ raced' = FALSE
    /\ UNCHANGED <<store, result>>
    /\ UNCHANGED dhtVars

\* reset, up to its first await: repo.config.getAll, then the assignment
\* of the default list; a failure of getAll ends the call
ResetGetAll ==
    /\ rpc = "idle"
    /\ \E r \in RepoSettles :
          /\ repoCalls' = Append(repoCalls, [fn |-> "getAll", settled |-> r])
          /\ IF r.ok
             THEN /\ docRead' = store
                  /\ config' = SetBootstrap(store)
                  /\ rpc' = "read"
                  /\ result' = result
             ELSE /\ result' = [kind |-> "throw", err |-> r.err]
                  /\ rpc' = "done"
                  /\ UNCHANGED <<docRead, config>>
    /\ raced' = FALSE
    /\ UNCHANGED store
    /\ UNCHANGED dhtVars

\* reset, from its second await: repo.config.replace, then the result;
\* a replace that fails may or may not have written
ResetReplace ==
    /\ rpc = "read"
    /\ \E r \in RepoSettles :
          /\ repoCalls' = Append(repoCalls, [fn |-> "replace", doc |-> config, settled |-> r])
          /\ IF r.ok
             THEN /\ store' = Replace(store, config)
                  /\ result' = [kind |-> "return", Peers |-> DefaultPeers]
             ELSE /\ store' \in {store, Replace(store, config)}
                  /\ result' = [kind |-> "throw", err |-> r.err]
    /\ rpc' = "done"
    /\ UNCHANGED <<config, docRead, raced>>
    /\ UNCHANGED dhtVars

\* another writer of the repository changes one field of the stored document
OtherWriter ==
    /\ \E d \in Documents :
          /\ DOMAIN d = DOMAIN store \/ \E f \in DOMAIN d : DOMAIN d = DOMAIN store \cup {f}
          /\ Cardinality({f \in DOMAIN d : ~Has(store, f) \/ store[f] # d[f]}) = 1
          /\ store' = d
          /\ raced' = (raced \/ (rpc = "read" /\ \E f \in DOMAIN d \ {"Bootstrap"} :
                                                  ~Has(store, f) \/ store[f] # d[f]))
    /\ UNCHANGED <<rpc, config, docRead, repoCalls, result>>
    /\ UNCHANGED dhtVars

IdleReset ==
    /\ store = [A |-> 0]
    /\ rpc = "idle"
    /\ config = [A |-> 0]
    /\ docRead = [A |-> 0]
    /\ repoCalls = <<>>
    /\ result = [kind |-> "none"]
    /\ raced = FALSE

----------------------------------------------------------------------------
(* The gateway: one request from its query to its outcome *)

Init ==
    /\ verb \in Verbs
    /\ rawQuery \in RawQueries(verb)
    /\ query = rawQuery
    /\ pc = "validate"
    /\ aborted = FALSE
    /\ calls = <<>>
    /\ outcome = [kind |-> "none"]
    /\ source = <<>>
    /\ srcEnd = [kind |-> "end"]
    /\ read = 0
    /\ out = <<>>
    /\ stream = "none"
    /\ released = FALSE
    /\ IdleReset

Next ==
    \/ ValidateRequest
    \/ Abort
    \/ FindPeerHandler
    \/ GetHandler
    \/ ProvideHandler
    \/ PutHandler
    \/ FindProvsHandler
    \/ QueryHandler
    \/ StreamPump
    \/ StreamEnd
    \/ StreamCancel

Spec == Init /\ [][Next]_vars

----------------------------------------------------------------------------
(* Bootstrap reset next to another writer of the repository *)

NoRequest ==
    /\ verb = "findPeer"
    /\ rawQuery = [encoding |-> "json"]
    /\ query = [encoding |-> "json"]
    /\ pc = "done"
    /\ aborted = FALSE
    /\ calls = <<>>
    /\ outcome = [kind |-> "none"]
    /\ source = <<>>
    /\ srcEnd = [kind |-> "end"]
    /\ read = 0
    /\ out = <<>>
    /\ stream = "none"
    /\ released = FALSE

InitReset ==
    /\ NoRequest
    /\ store \in Documents
    /\ rpc = "idle"
    /\ config = store
    /\ docRead = store
    /\ repoCalls = <<>>
    /\ result = [kind |-> "none"]
    /\ raced = FALSE

NextReset ==
    \/ ResetGetAll
    \/ ResetReplace
    \/ OtherWriter

SpecReset == InitReset /\ [][NextReset]_vars

----------------------------------------------------------------------------
(* Properties of the gateway, under Spec *)

\* the engine call of a non-streaming verb was made and failed
EngineFailed == pc = "done" /\ Len(calls) = 1 /\ Has(calls[1], "settled") /\ ~calls[1].settled.ok

\* text `t` begins with text `p`
StartsWith(t, p) == Len(t) >= Len(p) /\ SubSeq(t, 1, Len(p)) = p

\* C1: the envelopes of a find-providers stream are the image, one for one
\* and in order, of the events taken from the engine's sequence: the k-th
\* envelope has Type 4 and the ID and addresses of the k-th event, and a
\* stream that ended by itself has taken every event.
C1_FindProvsEnvelopesMirrorEvents ==
    (verb = "findProvs" /\ stream # "none") =>
        /\ read <= Len(source)
        /\ Len(out) = read
        /\ \A k \in 1..Len(out) :
              /\ out[k].Type = 4
              /\ Len(out[k].Responses) = 1
              /\ out[k].Responses[1].ID = IdToString(source[k].id)
              /\ out[k].Responses[1].Addrs =
                    IF Has(source[k], "addrs")
                    THEN [i \in 1..Len(source[k].addrs) |-> AddrToString(source[k].addrs[i])]
                    ELSE <<>>
        /\ (stream = "ended" => read = Len(source))

C1_Witness ==
    /\ verb = "findProvs" /\ stream = "ended"
    /\ Len(source) = 2 /\ Len(out) = 2
    /\ source[1].id # source[2].id
    /\ Has(source[1], "addrs") /\ Len(source[1].addrs) = 2
    /\ ~Has(source[2], "addrs")

\* C2: once the signal has fired no further event is taken from the source
\* and no further envelope is written, so the envelopes number at most the
\* events taken when it fired; a stream that was open ends with its source
\* iterator closed.
C2_CancelStopsStream ==
    [][aborted =>
          /\ read' = read
          /\ out' = out
          /\ Len(out') <= read'
          /\ (pc' = "done" /\ stream' # "none" => released' /\ stream' = "cancelled")]_vars

C2_Witness ==
    /\ aborted /\ pc = "done" /\ stream = "cancelled" /\ released
    /\ Len(source) = 2 /\ read = 1 /\ Len(out) = 1

\* C4: a find-peer whose engine call fails with code ERR_LOOKUP_FAILED ends
\* not-found; with any other failure it ends as a server error whose message
\* begins with the failure's string form; neither returns a response.
C4_FindPeerFailure ==
    (verb = "findPeer" /\ EngineFailed) =>
        LET e == calls[1].settled.err
        IN  /\ outcome.kind = "throw"
            /\ IF Has(e, "code") /\ e.code = "ERR_LOOKUP_FAILED"
               THEN outcome.err.statusCode = 404
               ELSE /\ outcome.err.statusCode = 500
                    /\ StartsWith(outcome.err.message, ErrToString(e))

C4_Witness ==
    /\ verb = "findPeer" /\ EngineFailed
    /\ calls[1].settled.err = [message |-> <<"boom">>, code |-> "ERR_LOOKUP_FAILED"]
    /\ outcome.err.statusCode = 404

\* C5: a put request whose `arg` does not occur exactly twice ends as a bad
\* request with no call on the engine; with exactly two occurrences put is
\* called once, the first as key and the second as value.
C5_PutArity ==
    (verb = "put" /\ pc = "done") =>
        IF Has(rawQuery, "arg") /\ Len(rawQuery.arg) = 2
        THEN /\ Len(calls) = 1
             /\ calls[1].fn = "put"
             /\ calls[1].args = <<ToBuffer(rawQuery.arg[1]), ToBuffer(rawQuery.arg[2])>>
        ELSE /\ outcome.kind = "badRequest"
             /\ calls = <<>>

C5_Witness ==
    /\ verb = "put" /\ pc = "done"
    /\ Has(rawQuery, "arg") /\ Len(rawQuery.arg) = 3
    /\ outcome.kind = "badRequest"

\* C6: a find-peer whose engine call resolves responds with one envelope of
\* Type 2 whose single Responses entry has the peer's ID and its addresses
\* in order, and no address when the engine gave none.
C6_FindPeerSuccess ==
    (verb = "findPeer" /\ pc = "done" /\ Len(calls) = 1 /\ calls[1].settled.ok) =>
        LET res == calls[1].settled.value
        IN  /\ outcome.kind = "response"
            /\ outcome.body.Type = 2
            /\ Len(outcome.body.Responses) = 1
            /\ outcome.body.Responses[1].ID = IdToString(res.id)
            /\ outcome.body.Responses[1].Addrs =
                  IF Has(res, "addrs")
                  THEN [i \in 1..Len(res.addrs) |-> AddrToString(res.addrs[i])]
                  ELSE <<>>

C6_Witness ==
    /\ verb = "findPeer" /\ pc = "done" /\ outcome.kind = "response"
    /\ Len(outcome.body.Responses[1].Addrs) = 2
    /\ outcome.body.Responses[1].Addrs[1] # outcome.body.Responses[1].Addrs[2]

\* C7: the envelopes of a query stream are the image, one for one and in
\* order, of the events taken, each carrying the event's peer id; an engine
\* sequence that is empty gives a stream that ends with no envelope and no
\* failure.
C7_QueryEnvelopes ==
    (verb = "query" /\ stream # "none") =>
        /\ Len(out) = read
        /\ \A k \in 1..Len(out) : out[k] = [ID |-> IdToString(source[k].id)]
        /\ (source = <<>> /\ srcEnd.kind = "end" /\ pc = "done" /\ ~aborted =>
               stream = "ended" /\ out = <<>> /\ outcome = [kind |-> "stream"])

C7_Witness ==
    /\ verb = "query" /\ pc = "done" /\ source = <<>> /\ srcEnd.kind = "end"
    /\ stream = "ended" /\ out = <<>>

----------------------------------------------------------------------------
(* Properties of bootstrap reset, under SpecReset *)

\* reset's latest call on the repository failed in this step
RepoCallFailed ==
    /\ Len(repoCalls') = Len(repoCalls) + 1
    /\ ~repoCalls'[Len(repoCalls')].settled.ok

\* C3: when reset's replace succeeds and the store still holds the document
\* reset read, the store then holds that document with Bootstrap set to the
\* default list and every other field as it was, and reset returns the
\* default list parsed entry by entry.
C3_ResetFrame ==
    [][(rpc = "read" /\ rpc' = "done" /\ result'.kind = "return" /\ store = docRead) =>
          /\ DOMAIN store' = DOMAIN store \cup {"Bootstrap"}
          /\ \A f \in DOMAIN store \ {"Bootstrap"} : store'[f] = store[f]
          /\ store'.Bootstrap = DefaultBootstrap
          /\ Len(result'.Peers) = Len(DefaultBootstrap)
          /\ \A i \in 1..Len(DefaultBootstrap) :
                result'.Peers[i] = [protocol |-> DefaultBootstrap[i][2],
                                    value |-> DefaultBootstrap[i][4]]]_vars

C3_Witness ==
    /\ rpc = "done" /\ result.kind = "return" /\ ~raced
    /\ Has(docRead, "B") /\ Has(docRead, "Bootstrap")
    /\ docRead.Bootstrap # DefaultBootstrap
    /\ store = [A |-> docRead.A, B |-> docRead.B, Bootstrap |-> DefaultBootstrap]

\* C9: whatever another writer stored between reset's getAll and its
\* replace, a replace that succeeds leaves in the store exactly the fields
\* reset read, each field other than Bootstrap with the value reset read.
C9_LostUpdate ==
    [][(rpc = "read" /\ rpc' = "done" /\ result'.kind = "return") =>
          /\ DOMAIN store' = DOMAIN docRead \cup {"Bootstrap"}
          /\ \A f \in DOMAIN docRead \ {"Bootstrap"} : store'[f] = docRead[f]]_vars

C9_Witness ==
    /\ rpc = "done" /\ result.kind = "return" /\ raced
    /\ Len(repoCalls) = 2 /\ repoCalls[2].settled.ok
    /\ store = [A |-> docRead.A, Bootstrap |-> DefaultBootstrap]

\* C10: a failure of getAll or replace ends reset with that same failure
\* and no Peers; no call on the repository follows a failed one, and a
\* failed getAll leaves the store as it was.
C10_ResetPropagatesFailure ==
    [][/\ RepoCallFailed =>
             /\ rpc' = "done"
             /\ result' = [kind |-> "throw", err |-> repoCalls'[Len(repoCalls')].settled.err]
             /\ (repoCalls'[Len(repoCalls')].fn = "getAll" => store' = store)
       /\ \A i \in 1..(Len(repoCalls') - 1) : repoCalls'[i].settled.ok
       /\ \A i \in 1..Len(repoCalls') : repoCalls'[i].fn = <<"getAll", "replace">>[i]]_vars

C10_Witness ==
    /\ rpc = "done" /\ Len(repoCalls) = 1
    /\ result = [kind |-> "throw", err |-> [message |-> <<"io">>, code |-> "ERR_IO"]]

====
